---- MODULE Spec2Model ----
(***************************************************************************)
(* Model of assignments/nbody/utils.py: the animation sessions             *)
(* grid_animation2d and density3d and their per-frame callbacks evoframe   *)
(* and evoframe3d.                                                         *)
(*                                                                         *)
(* Python strings are sequences of pieces (one-character pieces for paths, *)
(* longer literal pieces for the format string); arrays are sequences of   *)
(* sequences, indexed from 1 where numpy indexes from 0.                   *)
(***************************************************************************)
EXTENDS Integers, Sequences, FiniteSets, TLC

\* ------------------------------------------------------------------ bounds
MaxIter == 2
MaxCycles == 1
MaxDirectCalls == 2

\* ------------------------------------------------------- python primitives
None == [given |-> FALSE, s |-> <<>>]
Some(p) == [given |-> TRUE, s |-> p]

Digit(d) == <<"0", "1", "2", "3", "4", "5", "6", "7", "8", "9">>[d + 1]

RECURSIVE NatStr(_)
NatStr(n) == IF n < 10 THEN <<Digit(n)>> ELSE NatStr(n \div 10) \o <<Digit(n % 10)>>

\* str(n) of an integer, as '{}'.format uses it
Str(n) == IF n < 0 THEN <<"-">> \o NatStr(-n) ELSE NatStr(n)

\* s.split('.'): the maximal dot-free pieces of s, in order (never empty)
RECURSIVE SplitDot(_, _)
SplitDot(s, cur) ==
  IF s = <<>> THEN <<cur>>
  ELSE IF Head(s) = "." THEN <<cur>> \o SplitDot(Tail(s), <<>>)
  ELSE SplitDot(Tail(s), Append(cur, Head(s)))

\* savepath.split('.')[-1]
FileFormat(savepath) == LET parts == SplitDot(savepath, <<>>) IN parts[Len(parts)]

\* fformat != 'gif' is false: the session exports
IsGifFormat(savepath) == FileFormat(savepath) = <<"g", "i", "f">>

\* 'Step {}: Total Energy is {}'.format(frames, eg)
Egstr(frames, eg) == <<"Step ">> \o Str(frames) \o <<": Total Energy is ">> \o Str(eg)

\* a file: whether it exists and the pieces written to it
NoFile == [exists |-> FALSE, data |-> <<>>]
OldLog == [exists |-> TRUE, data |-> <<"old run", "\n">>]

\* open(logfile, 'w'); close(): the file exists and is empty
TruncateFile(f) == [exists |-> TRUE, data |-> <<>>]

\* The mode 'w' in place of 'a': every frame would overwrite the file.
WriteLineOverwriting(f, egstr) == [exists |-> TRUE, data |-> egstr \o <<"\n">>]

\* open(logfile, 'a'); write(''.join([egstr, '\n'])); close()
WriteLine(f, egstr) == [exists |-> TRUE, data |-> f.data \o egstr \o <<"\n">>]

\* ------------------------------------------------- the model (nbody.NBody)
Ngrid == 4
NX == 2
NY == 3
NZ == 2
NPart == 2

\* model.density of a 2-d model after t timesteps, shape (NX, NY)
Density2(t) == [i \in 1..NX |-> [j \in 1..NY |-> (t + i + 2 * j) % 4]]

\* model.density of a 3-d model after t timesteps, shape (NX, NY, NZ)
Density3(t) == [i \in 1..NX |-> [j \in 1..NY |-> [k \in 1..NZ |-> (t + i * j + 2 * k) % 3]]]

\* model.pos after t timesteps, shape (NPart, 2)
Pos(t) == [n \in 1..NPart |-> <<(t + n) % Ngrid, (2 * t + n) % Ngrid>>]

\* the value model.evolve returns when it leaves the model at time t
EnergyAt(t) == 5 - 4 * t

\* ---------------------------------------------------------- numpy helpers
\* A.T of a 2-d array
Transpose(A) ==
  IF A = <<>> THEN <<>>
  ELSE [j \in 1..Len(A[1]) |-> [i \in 1..Len(A) |-> A[i][j]]]

RECURSIVE SeqSum(_)
SeqSum(s) == IF s = <<>> THEN 0 ELSE Head(s) + SeqSum(Tail(s))

RECURSIVE SeqMax(_)
SeqMax(s) ==
  IF Len(s) = 1 THEN Head(s)
  ELSE LET m == SeqMax(Tail(s)) IN IF Head(s) > m THEN Head(s) ELSE m

\* A collapse by the maximum along the last axis in place of the sum.
MaxLastAxis(D) == [i \in 1..Len(D) |-> [j \in 1..Len(D[i]) |-> SeqMax(D[i][j])]]

\* np.sum(D, axis=-1) of a 3-d array
SumLastAxis(D) == [i \in 1..Len(D) |-> [j \in 1..Len(D[i]) |-> SeqSum(D[i][j])]]

\* P[:, c] of an (n, 2) array, c counted from 0
Column(P, c) == [n \in 1..Len(P) |-> P[n][c + 1]]

\* ------------------------------------------------------ the render artifact
Unbound == [kind |-> "unbound", A |-> <<>>, x |-> <<>>, y |-> <<>>]
\* ax.imshow(A, ...)
Image(A) == [kind |-> "image", A |-> A, x |-> <<>>, y |-> <<>>]
\* ax.plot(x, y, marker)
Line(x, y) == [kind |-> "line", A |-> <<>>, x |-> x, y |-> y]
\* what a failed attribute lookup or call on the artifact leaves behind
Raises == [kind |-> "raise", A |-> <<>>, x |-> <<>>, y |-> <<>>]

\* plot.set_array(A): an image's method
SetArray(plot, A) == IF plot.kind = "image" THEN Image(A) ELSE Raises
\* plot.set_data(x, y): a line's method (an image's set_data takes one array)
SetData(plot, x, y) == IF plot.kind = "line" THEN Line(x, y) ELSE Raises


\* ------------------------------------------------------- evoframe, evoframe3d
\* An else in place of the elif: every type but 'grid' is drawn as points.
SetArtifact2dElsePts(type, plot, t) ==
  IF type = "grid" THEN SetArray(plot, Transpose(Density2(t)))
  ELSE SetData(plot, Column(Pos(t), 0), Column(Pos(t), 1))

\* evoframe's dispatch on type: the new artifact (the old one when type is
\* neither 'grid' nor 'pts')
SetArtifact2d(type, plot, t) ==
  IF type = "grid" THEN SetArray(plot, Transpose(Density2(t)))
  ELSE IF type = "pts" THEN SetData(plot, Column(Pos(t), 0), Column(Pos(t), 1))
  ELSE plot

\* evoframe3d's dispatch on type
SetArtifact3d(type, plot, t) ==
  IF type = "grid" THEN SetArray(plot, Transpose(SumLastAxis(Density3(t))))
  ELSE IF type = "pts" THEN SetData(plot, Column(Pos(t), 0), Column(Pos(t), 1))
  ELSE plot

\* --------------------------------------------- grid_animation2d, density3d
\* An else in place of the elif: every style but 'grid' is seeded as points.
SeedArtifact2dElsePts(st, t) ==
  IF st = "grid" THEN Image(Transpose(Density2(t)))
  ELSE Line(Column(Pos(t), 0), Column(Pos(t), 1))

\* grid_animation2d's dispatch on style: the artifact bound to plot, if any
SeedArtifact2d(st, t) ==
  IF st = "grid" THEN Image(Transpose(Density2(t)))
  ELSE IF st = "pts" THEN Line(Column(Pos(t), 0), Column(Pos(t), 1))
  ELSE Unbound

\* density3d's dispatch on style
SeedArtifact3d(st, t) ==
  IF st = "grid" THEN Image(Transpose(SumLastAxis(Density3(t))))
  ELSE IF st = "pts" THEN Line(Column(Pos(t), 0), Column(Pos(t), 1))
  ELSE Unbound

\* ------------------------------------------------------------------- state
VARIABLES
  dim,        \* 2: grid_animation2d with evoframe; 3: density3d with evoframe3d
  niter, show, savepath, repeat, nsteps, style, logfile,  \* the session's arguments
  pc,         \* the session's position (the line it is about to run)
  mtime,      \* the model: timesteps evolved so far
  plot,       \* the render artifact
  fs,         \* the log file
  stdout,     \* the strings printed
  frame_seq,  \* the animation's frame iterator: the next index it yields
  cycles,     \* restarts of a repeating animation so far
  fr,         \* the running evoframe call, if any
  hist        \* the operations performed so far, in order

vars == <<dim, niter, show, savepath, repeat, nsteps, style, logfile, pc, mtime,
          plot, fs, stdout, frame_seq, cycles, fr, hist>>

args == <<dim, niter, show, savepath, repeat, nsteps, style, logfile>>

Styles == {"grid", "pts", "mesh"}
LogPath == <<"e", ".", "l", "o", "g">>
SavePaths ==
  { <<"a", ".", "g", "i", "f">>, <<"g", "i", "f">>, <<"a", ".", "p", "n", "g">>,
    <<"a", ".", "G", "I", "F">>, <<"a">>, <<"a", ".", "g", "i", "f", ".", "x">> }

Ev(op, k, v) == [op |-> op, k |-> k, v |-> v]

\* what a call of evoframe finds on entry
Entry == [mtime |-> mtime, plot |-> plot, nout |-> Len(stdout), fs |-> fs]

NoCall ==
  [pcf |-> "none", frames |-> 0, type |-> "grid", nsteps |-> 1, logfile |-> None,
   eg |-> 0, egstr |-> <<>>, entry |-> [mtime |-> 0, plot |-> Unbound, nout |-> 0, fs |-> NoFile]]

\* func(frames, *fargs): evoframe is entered
Call(k, ty, ns, lf) ==
  [pcf |-> "l25", frames |-> k, type |-> ty, nsteps |-> ns, logfile |-> lf,
   eg |-> 0, egstr |-> <<>>, entry |-> Entry]

Idle == fr.pcf \in {"none", "ret"}

Init ==
  /\ dim \in {2, 3}
  /\ niter \in 0..MaxIter
  /\ show \in BOOLEAN
  /\ savepath \in {None} \cup {Some(p) : p \in SavePaths}
  /\ repeat \in BOOLEAN
  /\ nsteps \in {1, 2}
  /\ style \in Styles
  /\ logfile \in {None, Some(LogPath)}
  /\ pc = "l89"
  /\ mtime = 0
  /\ plot = Unbound
  /\ fs \in {NoFile, OldLog}
  /\ stdout = <<>>
  /\ frame_seq = 0
  /\ cycles = 0
  /\ fr = NoCall
  /\ hist = <<>>

\* lines 89-91 / 147-149
TruncateLog ==
  /\ pc = "l89"
  /\ IF logfile.given
       THEN /\ fs' = TruncateFile(fs)
            /\ hist' = Append(hist, Ev("truncate", Len(fs.data), 0))
       ELSE UNCHANGED <<fs, hist>>
  /\ pc' = "l96"
  /\ UNCHANGED <<args, mtime, plot, stdout, frame_seq, cycles, fr>>

\* lines 96-98 / 154-156
BuildFigure ==
  /\ pc = "l96"
  /\ hist' = Append(hist, Ev("figure", 0, 0))
  /\ pc' = "l99"
  /\ UNCHANGED <<args, mtime, plot, fs, stdout, frame_seq, cycles, fr>>

\* lines 99-102 / 157-161
SeedArtifact ==
  /\ pc = "l99"
  /\ plot' = IF dim = 2 THEN SeedArtifact2d(style, mtime) ELSE SeedArtifact3d(style, mtime)
  /\ hist' = IF plot'.kind = "unbound" THEN hist ELSE Append(hist, Ev("seed", 0, 0))
  /\ pc' = "l103"
  /\ UNCHANGED <<args, mtime, fs, stdout, frame_seq, cycles, fr>>

\* A plot that is always bound (assigned before the dispatch on style).
AfterBindAlwaysBound(p) == "l110"

\* where the session goes from line 107, given the local plot
AfterBind(p) == IF p.kind = "unbound" THEN "raised" ELSE "l110"

\* lines 103-109 / 162-168: the axes limits, then fargs reads the local plot
\* (UnboundLocalError when no branch assigned it), then the FuncAnimation
\* object is built; building it runs no frame
Bind ==
  /\ pc = "l103"
  /\ pc' = AfterBind(plot)
  /\ hist' = IF pc' = "raised" THEN hist ELSE Append(hist, Ev("bind", 0, 0))
  /\ frame_seq' = 0
  /\ UNCHANGED <<args, mtime, plot, fs, stdout, cycles, fr>>


\* the driver calls func(frames, *fargs) with fargs of line 107 / 166
Deliver(k) ==
  /\ fr' = Call(k, style, nsteps, logfile)
  /\ hist' = Append(hist, Ev("call", k, 0))

\* line 110 / 169, savepath is None
SkipSave ==
  /\ pc = "l110"
  /\ ~savepath.given
  /\ pc' = "l118"
  /\ UNCHANGED <<args, mtime, plot, fs, stdout, frame_seq, cycles, fr, hist>>

\* lines 111-115 / 170-174: warnings.warn(msg, RuntimeWarning)
WarnFormat ==
  /\ pc = "l110"
  /\ savepath.given
  /\ ~IsGifFormat(savepath.s)
  /\ hist' = Append(hist, Ev("warn", 0, 0))
  /\ pc' = "l118"
  /\ UNCHANGED <<args, mtime, plot, fs, stdout, frame_seq, cycles, fr>>

\* lines 111-112, 117 / 170-171, 176: anim.save(savepath, writer='imagemagick')
\* is called
BeginSave ==
  /\ pc = "l110"
  /\ savepath.given
  /\ IsGifFormat(savepath.s)
  /\ hist' = Append(hist, Ev("save", 0, 0))
  /\ pc' = "save_init"
  /\ UNCHANGED <<args, mtime, plot, fs, stdout, frame_seq, cycles, fr>>

\* anim.save, first: anim._init_draw(). FuncAnimation was given no init_func
\* (line 108 / 167), so it draws the first frame of a fresh frame sequence.
SaveInitDraw ==
  /\ pc = "save_init"
  /\ niter > 0
  /\ Deliver(0)
  /\ frame_seq' = 0
  /\ pc' = "save_frames"
  /\ UNCHANGED <<args, mtime, plot, fs, stdout, cycles>>

\* frames=0: the fresh sequence is empty; matplotlib then warns and returns
SaveInitDrawEmpty ==
  /\ pc = "save_init"
  /\ niter = 0
  /\ frame_seq' = 0
  /\ pc' = "save_frames"
  /\ UNCHANGED <<args, mtime, plot, fs, stdout, cycles, fr, hist>>

\* frames=0 with a matplotlib whose _init_draw does not catch StopIteration
SaveInitDrawStop ==
  /\ pc = "save_init"
  /\ niter = 0
  /\ pc' = "raised"
  /\ UNCHANGED <<args, mtime, plot, fs, stdout, frame_seq, cycles, fr, hist>>

\* anim.save, then: one _draw_next_frame per item of range(niter)
SaveFrame ==
  /\ pc = "save_frames"
  /\ Idle
  /\ frame_seq < niter
  /\ Deliver(frame_seq)
  /\ frame_seq' = frame_seq + 1
  /\ UNCHANGED <<args, pc, mtime, plot, fs, stdout, cycles>>

\* anim.save returns
SaveEnd ==
  /\ pc = "save_frames"
  /\ Idle
  /\ frame_seq = niter
  /\ hist' = Append(hist, Ev("saved", 0, 0))
  /\ pc' = "l118"
  /\ UNCHANGED <<args, mtime, plot, fs, stdout, frame_seq, cycles, fr>>

\* line 118 / 177, show is false: the function returns
NoShow ==
  /\ pc = "l118"
  /\ ~show
  /\ pc' = "done"
  /\ UNCHANGED <<args, mtime, plot, fs, stdout, frame_seq, cycles, fr, hist>>

\* line 119 / 178: plt.show() is called and blocks
BeginShow ==
  /\ pc = "l118"
  /\ show
  /\ hist' = Append(hist, Ev("show", 0, 0))
  /\ frame_seq' = 0
  /\ pc' = "show_init"
  /\ UNCHANGED <<args, mtime, plot, fs, stdout, cycles, fr>>

\* the figure's first draw starts the animation: _init_draw, then the timer
ShowInitDraw ==
  /\ pc = "show_init"
  /\ niter > 0
  /\ Deliver(0)
  /\ pc' = "show_frames"
  /\ UNCHANGED <<args, mtime, plot, fs, stdout, frame_seq, cycles>>

ShowInitDrawEmpty ==
  /\ pc = "show_init"
  /\ niter = 0
  /\ pc' = "show_frames"
  /\ UNCHANGED <<args, mtime, plot, fs, stdout, frame_seq, cycles, fr, hist>>

\* each timer event draws the next frame of range(niter)
ShowFrame ==
  /\ pc = "show_frames"
  /\ Idle
  /\ frame_seq < niter
  /\ Deliver(frame_seq)
  /\ frame_seq' = frame_seq + 1
  /\ UNCHANGED <<args, pc, mtime, plot, fs, stdout, cycles>>

\* the sequence is exhausted and repeat is set: _init_draw again, then a
\* fresh sequence
ShowRepeat ==
  /\ pc = "show_frames"
  /\ Idle
  /\ frame_seq = niter
  /\ niter > 0
  /\ repeat
  /\ cycles < MaxCycles
  /\ Deliver(0)
  /\ frame_seq' = 0
  /\ cycles' = cycles + 1
  /\ UNCHANGED <<args, pc, mtime, plot, fs, stdout>>

\* the viewer closes the window (or the backend shows none): plt.show returns
CloseWindow ==
  /\ pc \in {"show_init", "show_frames"}
  /\ Idle
  /\ hist' = Append(hist, Ev("closed", 0, 0))
  /\ pc' = "done"
  /\ UNCHANGED <<args, mtime, plot, fs, stdout, frame_seq, cycles, fr>>

\* ------------------------------------------------ the steps of one evoframe
\* the statement after each statement of evoframe
\* The log block moved behind the dispatch on type.
NextStmtLogAfterRender(l) ==
  IF l = "l25" THEN "l26" ELSE IF l = "l26" THEN "l33" ELSE IF l = "l33" THEN "l28" ELSE "ret"

NextStmt(l) ==
  IF l = "l25" THEN "l26" ELSE IF l = "l26" THEN "l28" ELSE IF l = "l28" THEN "l33" ELSE "ret"

\* line 25 / 49: eg = model.evolve(nsteps=nsteps)
FEvolve ==
  /\ fr.pcf = "l25"
  /\ mtime' = mtime + fr.nsteps
  /\ fr' = [fr EXCEPT !.eg = EnergyAt(mtime'), !.pcf = NextStmt("l25")]
  /\ hist' = Append(hist, Ev("evolve", fr.nsteps, EnergyAt(mtime')))
  /\ UNCHANGED <<args, pc, plot, fs, stdout, frame_seq, cycles>>

\* lines 26-27 / 50-51: egstr is formatted and printed
FReport ==
  /\ fr.pcf = "l26"
  /\ fr' = [fr EXCEPT !.egstr = Egstr(fr.frames, fr.eg), !.pcf = NextStmt("l26")]
  /\ stdout' = Append(stdout, fr'.egstr)
  /\ hist' = Append(hist, Ev("print", fr.frames, fr.eg))
  /\ UNCHANGED <<args, pc, mtime, plot, fs, frame_seq, cycles>>

\* lines 28-31 / 52-55
FLog ==
  /\ fr.pcf = "l28"
  /\ IF fr.logfile.given
       THEN /\ fs' = WriteLine(fs, fr.egstr)
            /\ hist' = Append(hist, Ev("append", fr.frames, fr.eg))
       ELSE UNCHANGED <<fs, hist>>
  /\ fr' = [fr EXCEPT !.pcf = NextStmt("l28")]
  /\ UNCHANGED <<args, pc, mtime, plot, stdout, frame_seq, cycles>>

\* lines 33-36 / 57-61
FRender ==
  /\ fr.pcf = "l33"
  /\ LET new == IF dim = 2 THEN SetArtifact2d(fr.type, plot, mtime)
                ELSE SetArtifact3d(fr.type, plot, mtime)
     IN IF new.kind = "raise"
          THEN /\ fr' = [fr EXCEPT !.pcf = "raised"]
               /\ UNCHANGED <<plot, hist>>
          ELSE /\ fr' = [fr EXCEPT !.pcf = NextStmt("l33")]
               /\ plot' = new
               /\ hist' = IF fr.type \in {"grid", "pts"}
                            THEN Append(hist, Ev("set", fr.frames, 0)) ELSE hist
  /\ UNCHANGED <<args, pc, mtime, fs, stdout, frame_seq, cycles>>

Next ==
  \/ TruncateLog \/ BuildFigure \/ SeedArtifact \/ Bind
  \/ SkipSave \/ WarnFormat \/ BeginSave
  \/ SaveInitDraw \/ SaveInitDrawEmpty \/ SaveInitDrawStop \/ SaveFrame \/ SaveEnd
  \/ NoShow \/ BeginShow
  \/ ShowInitDraw \/ ShowInitDrawEmpty \/ ShowFrame \/ ShowRepeat \/ CloseWindow
  \/ FEvolve \/ FReport \/ FLog \/ FRender

Spec == Init /\ [][Next]_vars

\* ------------------------------- evoframe / evoframe3d called by other code

InitFrame ==
  /\ dim \in {2, 3}
  /\ niter = 0
  /\ show = FALSE
  /\ savepath = None
  /\ repeat = FALSE
  /\ nsteps = 1
  /\ style \in {"grid", "pts"}
  /\ logfile = None
  /\ pc = "direct"
  /\ mtime = 0
  /\ plot = IF dim = 2 THEN SeedArtifact2d(style, mtime) ELSE SeedArtifact3d(style, mtime)
  /\ fs \in {NoFile, OldLog}
  /\ stdout = <<>>
  /\ frame_seq = 0
  /\ cycles = 0
  /\ fr = NoCall
  /\ hist = <<>>

\* evoframe(frames, model, plot, type, nsteps, marker, logfile) from a caller
\* other than a session of this module
DirectCall ==
  /\ pc = "direct"
  /\ fr.pcf \in {"none", "ret", "raised"}
  /\ Len(SelectSeq(hist, LAMBDA e : e.op = "call")) < MaxDirectCalls
  /\ \E k \in {0, MaxIter}, ty \in Styles, ns \in {1, 2}, lf \in {None, Some(LogPath)} :
       /\ fr' = Call(k, ty, ns, lf)
       /\ hist' = Append(hist, Ev("call", k, 0))
  /\ UNCHANGED <<args, pc, mtime, plot, fs, stdout, frame_seq, cycles>>

NextFrame == DirectCall \/ FEvolve \/ FReport \/ FLog \/ FRender

SpecFrame == InitFrame /\ [][NextFrame]_vars


\* ------------------------------------------------------ reading the history
Count(op) == Len(SelectSeq(hist, LAMBDA e : e.op = op))

\* the frame indices evoframe was called with, in call order
Calls == LET c == SelectSeq(hist, LAMBDA e : e.op = "call") IN [i \in 1..Len(c) |-> c[i].k]

\* the values evolve returned, in call order
Energies == LET c == SelectSeq(hist, LAMBDA e : e.op = "evolve") IN [i \in 1..Len(c) |-> c[i].v]

\* the lines of a text: its pieces between newlines
RECURSIVE LinesOf(_, _)
LinesOf(d, cur) ==
  IF d = <<>> THEN (IF cur = <<>> THEN <<>> ELSE <<cur>>)
  ELSE IF Head(d) = "\n" THEN <<cur>> \o LinesOf(Tail(d), <<>>)
  ELSE LinesOf(Tail(d), Append(cur, Head(d)))

LogLines == LinesOf(fs.data, <<>>)

\* the path's last four characters are '.gif'
EndsWithDotGif(p) == Len(p) >= 4 /\ SubSeq(p, Len(p) - 3, Len(p)) = <<".", "g", "i", "f">>

Finished == pc = "done"
PastSaveCheck == pc \in {"l118", "show_init", "show_frames", "done"}

\* ------------------------------------------------------------------ claims

\* C1: one run of a session calls the Frame Advancer exactly niter times,
\* with the frame indices 0, 1, ..., niter-1 in strictly increasing order,
\* whatever show, savepath and repeat are.
C1_ExactlyNiterTicks ==
  /\ \A i \in 1..Len(Calls) : Calls[i] = i - 1
  /\ Len(Calls) <= niter
  /\ Finished => Len(Calls) = niter

\* C2: when a session with a log path has completed, the log file holds
\* exactly niter lines and line k is 'Step k: Total Energy is v_k', v_k the
\* value evolve returned in the tick with frame index k.
C2_LogHasNiterLines ==
  (Finished /\ logfile.given) =>
    /\ Len(LogLines) = niter
    /\ \A k \in 1..Len(LogLines) :
         \E j \in 1..Len(Calls) :
           /\ Calls[j] = k - 1
           /\ j <= Len(Energies)
           /\ LogLines[k] = Egstr(k - 1, Energies[j])

\* C4: a save path ending in '.gif' is exported exactly once without a
\* warning; any other save path, one without a '.' included, is not exported
\* and draws one RuntimeWarning; without a save path there is neither.
C4_SavePathValidation ==
  PastSaveCheck =>
    IF ~savepath.given THEN Count("save") = 0 /\ Count("warn") = 0
    ELSE IF EndsWithDotGif(savepath.s) THEN Count("save") = 1 /\ Count("warn") = 0
    ELSE Count("save") = 0 /\ Count("warn") = 1

\* C6: export happens exactly when a save path with the extension 'gif' was
\* given and display exactly when show is true, neither depending on the
\* other.
C6_ExportDisplayIndependent ==
  Finished =>
    /\ (Count("save") = 1) <=> (savepath.given /\ EndsWithDotGif(savepath.s))
    /\ Count("save") <= 1
    /\ (Count("show") = 1) <=> show
    /\ Count("show") <= 1


\* ----------------------------------------------------------------- C3
\* the calls of evoframe that have run their log statement (lines 28-31)
TicksLogged == Len(Calls) - (IF fr.pcf \in {"l25", "l26", "l28"} THEN 1 ELSE 0)

\* the record of the j-th call of evoframe
RecordOf(j) == Egstr(Calls[j], Energies[j])

C3_LogState ==
  /\ Count("truncate") = (IF logfile.given /\ pc # "l89" THEN 1 ELSE 0)
  /\ (logfile.given /\ pc # "l89") =>
       /\ fs.exists
       /\ hist[1].op = "truncate"
       /\ Len(LogLines) = TicksLogged
       /\ \A j \in 1..Len(LogLines) : LogLines[j] = RecordOf(j)

C3_LogStep ==
  /\ ~logfile.given => fs' = fs
  /\ (logfile.given /\ fs' # fs) =>
       \/ pc = "l89" /\ hist = <<>> /\ fs' = [exists |-> TRUE, data |-> <<>>]
       \/ /\ fr.pcf = "l28"
          /\ fs.exists
          /\ fs'.exists
          /\ fs'.data = fs.data \o Egstr(fr.frames, fr.eg) \o <<"\n">>

\* C3: with a log path the file is truncated exactly once, at session start
\* and before any call of evoframe; afterwards it only grows, each tick
\* appending its one record behind those already written, the k-th line being
\* the record of the k-th tick; without a log path the file is never touched.
C3_TruncateOnceThenAppend == []C3_LogState /\ [][C3_LogStep]_vars

\* C3's case: a log that had contents was truncated and two ticks have each
\* appended their record.
C3_Witness ==
  /\ logfile.given
  /\ hist # <<>> /\ hist[1].op = "truncate" /\ hist[1].k > 0
  /\ Len(LogLines) = 2
  /\ Idle


\* ----------------------------------------------------------------- C5
KnownStyles == {"grid", "pts"}

\* C5: a call of evoframe / evoframe3d with a type that is neither 'grid'
\* nor 'pts' raises nothing and, once it has returned, has advanced the model
\* by nsteps, printed its record, appended it to the log if one was given
\* (and left the file alone otherwise), and left the artifact as it found it.
C5_UnknownTypeIsSilentNoOp ==
  fr.type \notin KnownStyles =>
    /\ fr.pcf # "raised"
    /\ fr.pcf = "ret" =>
         LET rec == <<"Step ">> \o Str(fr.frames) \o <<": Total Energy is ">>
                      \o Str(EnergyAt(fr.entry.mtime + fr.nsteps))
         IN /\ mtime = fr.entry.mtime + fr.nsteps
            /\ stdout = Append(SubSeq(stdout, 1, fr.entry.nout), rec)
            /\ IF fr.logfile.given
                 THEN fs.exists /\ fs.data = fr.entry.fs.data \o rec \o <<"\n">>
                 ELSE fs = fr.entry.fs
            /\ plot = fr.entry.plot

\* C5's case: a second call, with the type 'mesh' and a log path, has
\* returned; the artifact is an image.
C5_Witness ==
  /\ fr.pcf = "ret"
  /\ fr.type = "mesh"
  /\ fr.logfile.given
  /\ plot.kind = "image"
  /\ Count("call") = 2

\* ----------------------------------------------------------------- C8
\* the calls of evoframe that have run line 25, lines 26-27, lines 33-36
TicksEvolved == Len(Calls) - (IF fr.pcf = "l25" THEN 1 ELSE 0)
TicksReported == Len(Calls) - (IF fr.pcf \in {"l25", "l26"} THEN 1 ELSE 0)
TicksRendered == Len(Calls) - (IF fr.pcf \in {"l25", "l26", "l28", "l33"} THEN 1 ELSE 0)

\* the artifact a session with a known style shows for the model at time t
ArtifactAt(t) == IF dim = 2 THEN SeedArtifact2d(style, t) ELSE SeedArtifact3d(style, t)

\* C8: within a tick the effects come in the order evolve, print, append,
\* artifact update: at each statement of evoframe exactly the effects of the
\* statements before it have happened. evolve ran once per tick with the
\* session's nsteps, the record printed and appended in a tick carries the
\* value that tick's evolve returned, and the record of a tick is in the log
\* before the artifact is updated for it and before the next tick's evolve.
C8_StepOrder ==
  /\ mtime = nsteps * TicksEvolved
  /\ Len(Energies) = TicksEvolved
  /\ \A j \in 1..TicksEvolved : Energies[j] = EnergyAt(nsteps * j)
  /\ Len(stdout) = TicksReported
  /\ \A j \in 1..TicksReported : stdout[j] = RecordOf(j)
  /\ (logfile.given /\ pc # "l89") =>
       /\ Len(LogLines) = TicksLogged
       /\ \A j \in 1..TicksLogged : LogLines[j] = RecordOf(j)
  /\ ~logfile.given => Count("append") = 0
  /\ (style \in KnownStyles /\ plot.kind # "unbound") => plot = ArtifactAt(nsteps * TicksRendered)

\* C8's case: the second tick of a logging session stands before its artifact
\* update: its record is in the log, the artifact still shows the first tick.
C8_Witness ==
  /\ fr.pcf = "l33"
  /\ logfile.given
  /\ Len(Calls) = 2
  /\ Len(LogLines) = 2
  /\ plot = ArtifactAt(nsteps)
  /\ mtime = 2 * nsteps

\* ----------------------------------------------------------------- C9
RECURSIVE SumUpTo(_, _)
\* f[1] + ... + f[n]
SumUpTo(f, n) == IF n = 0 THEN 0 ELSE f[n] + SumUpTo(f, n - 1)

\* the artifact holds the projection of the model as it is now
C9_ShowsModel ==
  IF style = "grid"
    THEN /\ plot.kind = "image"
         /\ Len(plot.A) = NY
         /\ \A j \in 1..NY :
              /\ Len(plot.A[j]) = NX
              /\ \A i \in 1..NX :
                   plot.A[j][i] = IF dim = 2 THEN Density2(mtime)[i][j]
                                  ELSE SumUpTo(Density3(mtime)[i][j], NZ)
    ELSE /\ plot.kind = "line"
         /\ Len(plot.x) = NPart
         /\ Len(plot.y) = NPart
         /\ \A n \in 1..NPart : plot.x[n] = Pos(mtime)[n][1] /\ plot.y[n] = Pos(mtime)[n][2]

C9_State ==
  (style \in KnownStyles /\ plot.kind # "unbound" /\ Idle) => C9_ShowsModel

\* seeding the artifact and updating it leave the model as it was
C9_Step == (pc = "l99" \/ fr.pcf = "l33") => mtime' = mtime

\* C9: after seeding and after every completed tick with a known style the
\* artifact is the projection of the model's current state: density
\* transposed (2-d grid), the sum of density over its last axis, transposed
\* (3-d grid), or columns 0 and 1 of pos (pts); seeding and ticks project
\* alike, and projecting does not change the model.
C9_ArtifactIsProjection == []C9_State /\ [][C9_Step]_vars

\* C9's case: a 3-d grid session has completed two ticks
C9_Witness ==
  /\ dim = 3
  /\ style = "grid"
  /\ Idle
  /\ Len(Calls) = 2
  /\ mtime > 0
  /\ C9_ShowsModel


\* ----------------------------------------------------------------- C7
\* the session's positions in program order; a raise ends it wherever it is
Rank(p) ==
  CASE p = "l89" -> 0 [] p = "l96" -> 1 [] p = "l99" -> 2 [] p = "l103" -> 3
    [] p = "l110" -> 4 [] p = "save_init" -> 5 [] p = "save_frames" -> 6
    [] p = "l118" -> 7 [] p = "show_init" -> 8 [] p = "show_frames" -> 9
    [] p = "done" -> 10 [] p = "raised" -> 11

\* the operation op has happened before position q of the history
Before(op, q) == \E p \in 1..(q - 1) : hist[p].op = op

\* position q of the history lies inside anim.save or inside plt.show
InPass(q) ==
  \E p \in 1..(q - 1) :
    /\ hist[p].op \in {"save", "show"}
    /\ \A r \in (p + 1)..(q - 1) : hist[r].op \notin {"saved", "closed"}

C7_State ==
  /\ Count("figure") <= 1 /\ Count("seed") <= 1 /\ Count("bind") <= 1
  /\ Count("save") <= 1 /\ Count("show") <= 1
  /\ \A q \in 1..Len(hist) :
       /\ hist[q].op = "seed" => Before("figure", q)
       /\ hist[q].op = "bind" => Before("seed", q)
       /\ hist[q].op \in {"save", "warn", "show"} => Before("bind", q)
       /\ hist[q].op = "show" => \A r \in (q + 1)..Len(hist) : hist[r].op # "save"
       /\ hist[q].op = "call" => Before("seed", q) /\ Before("bind", q) /\ InPass(q)
  /\ Rank(pc) <= Rank("l110") => Len(Calls) = 0
  /\ ~Idle => pc \in {"save_frames", "show_frames"}
  /\ pc = "save_frames" => Count("save") = 1 /\ Count("saved") = 0
  /\ pc = "show_frames" => Count("show") = 1 /\ Count("closed") = 0

C7_Step == Rank(pc') >= Rank(pc)

C10_UnknownStyleAborts ==
  style \notin KnownStyles =>
    /\ pc \in {"l89", "l96", "l99", "l103", "raised"}
    /\ plot = Unbound
    /\ mtime = 0
    /\ Len(Calls) = 0 /\ Count("evolve") = 0
    /\ Count("save") = 0 /\ Count("warn") = 0 /\ Count("show") = 0
    /\ stdout = <<>>
    /\ (logfile.given /\ pc # "l89") => fs = [exists |-> TRUE, data |-> <<>>]

\* C10's case: the session with style 'mesh' has raised; its log, which had
\* contents before, is empty.
C10_Witness ==
  /\ style = "mesh"
  /\ pc = "raised"
  /\ logfile.given
  /\ hist[1].op = "truncate" /\ hist[1].k > 0
  /\ fs.data = <<>>

====
